---- MODULE Spec2Model ----
(***************************************************************************)
(* Model of generate-og-images.py: the page driver, generate_og_image and  *)
(* the drawing helpers it calls.  A raster is modelled at a fixed set of   *)
(* sample pixels (px) together with the list of vector shapes and text     *)
(* draws that were applied to it.  Image objects live in a heap so that    *)
(* rebinding the name img to the result of Image.alpha_composite leaves    *)
(* the old object (and any ImageDraw bound to it) behind.                  *)
(***************************************************************************)
EXTENDS Integers, Sequences, FiniteSets, TLC

VARIABLES
    pc,         \* position in the script / in generate_og_image
    i,          \* index into pages of the config being processed (for loop)
    dirs,       \* TRUE once ./images exists
    stdout,     \* lines printed so far
    disk,       \* files written so far, in order: [path, w, h]
    exc,        \* "none", or the place an exception was raised
    calls,      \* page indexes generate_og_image was called with, in order
    heap,       \* image objects: ref -> [mode, w, h, px, texts, shapes]
    img,        \* local img: ref of the object the name is bound to (0 = unbound)
    overlay,    \* local overlay: ref
    draw,       \* local draw: ref of the image ImageDraw.Draw was created on
    fonts,      \* [title, subtitle, domain] fonts loaded, or "unset"
    angle,      \* spiral loop: angle in tenths of a radian
    points,     \* spiral loop: points appended so far, [angle, radius] (radius in 1/1000)
    gpos,       \* add_grain_texture: number of pixels processed
    intensity,  \* add_grain_texture: intensity argument <<num, den>>
    grainLog,   \* per processed pixel: [xy, in, draws, out]
    trace       \* stages of the current generate_og_image call, in order

vars == <<pc, i, dirs, stdout, disk, exc, calls, heap, img, overlay, draw,
          fonts, angle, points, gpos, intensity, grainLog, trace>>

driverVars == <<dirs, stdout, disk, exc, calls, i>>

----------------------------------------------------------------------------
(* Bounds *)

\* random.random() is modelled as k / RandDen for k in 0 .. RandDen-1
RandDen == 3

\* in GrainSpec the intensity argument ranges over n / IntDen, n in 1 .. IntDen
IntDen == 8

----------------------------------------------------------------------------
(* Program constants *)

colors == [yellow |-> <<255, 226, 39>>,
           yellow_hover |-> <<255, 216, 0>>,
           dark |-> <<26, 26, 26>>,
           white |-> <<255, 255, 255>>,
           warm |-> <<250, 249, 247>>,
           cobalt |-> <<0, 71, 171>>,
           teal |-> <<13, 115, 119>>]

WIDTH == 1200

HEIGHT == 630

pages == <<
    [title |-> "Ben Siverly",
     subtitle |-> "Product Manager, Builder, Gardener",
     accent_color |-> colors.yellow, background_color |-> colors.warm,
     pattern |-> "circles", title_size |-> 84,
     output_path |-> "./images/og-home.png"],
    [title |-> "Life Strategy Matrix",
     subtitle |-> "Score life areas. See where to invest.",
     accent_color |-> colors.cobalt, background_color |-> colors.warm,
     pattern |-> "geometric", title_size |-> 72,
     output_path |-> "./images/og-life-strategy.png"],
    [title |-> "Memorial Pamphlet",
     subtitle |-> "Create a dignified memorial pamphlet.",
     accent_color |-> colors.teal, background_color |-> colors.warm,
     pattern |-> "waves", title_size |-> 72,
     output_path |-> "./images/og-memorial-pamphlet.png"],
    [title |-> "Native Plant Finder",
     subtitle |-> "Find plants tailored to your region.",
     accent_color |-> colors.yellow, background_color |-> colors.warm,
     pattern |-> "spiral", title_size |-> 72,
     output_path |-> "./images/og-native-plant-finder.png"],
    [title |-> "Service of Life Builder",
     subtitle |-> "Build a liturgy for a memorial.",
     accent_color |-> colors.cobalt, background_color |-> colors.warm,
     pattern |-> "waves", title_size |-> 66,
     output_path |-> "./images/og-service-of-life.png"] >>

----------------------------------------------------------------------------
(* Rasters *)

\* The pixels of the 1200x630 canvas the model follows, as <<x, y>>: the
\* two ends of the accent bar band (the first on a grid line) and a pixel
\* inside the accent square.  None lies under a glyph or under a ring, wave,
\* spiral or hexagon stroke.
Samples == {<<0, 0>>, <<1199, 8>>, <<100, 505>>}

Min(a, b) == IF a < b THEN a ELSE b

Max(a, b) == IF a > b THEN a ELSE b

\* range(start, stop, step) for step > 0, as a sequence
PyRange(start, stop, step) ==
    [n \in 1 .. (IF stop > start THEN (stop - start + step - 1) \div step ELSE 0)
        |-> start + (n - 1) * step]

SeqRange(s) == {s[n] : n \in DOMAIN s}

\* Image.new(mode, (w, h), color) restricted to the pixels dom
NewImage(mode, w, h, color, dom) ==
    [mode |-> mode, w |-> w, h |-> h,
     px |-> [p \in dom |-> color],
     texts |-> <<>>, shapes |-> <<>>]

Transparent == <<0, 0, 0, 0>>

Opaque(rgb) == <<rgb[1], rgb[2], rgb[3], 255>>

WithAlpha(rgb, a) == <<rgb[1], rgb[2], rgb[3], a>>

\* one channel of an alpha-composite over an opaque destination
BlendChannel(src, dst, a) == (src * a + dst * (255 - a) + 127) \div 255

\* Image.alpha_composite(base.convert('RGBA'), layer).convert('RGB'): a new
\* image; base and layer are left as they are
AlphaComposite(base, layer) ==
    [mode |-> "RGB", w |-> base.w, h |-> base.h,
     px |-> [p \in DOMAIN base.px |->
                LET s == layer.px[p]
                    d == base.px[p]
                IN  IF s[4] = 0 THEN Opaque(d)
                    ELSE <<BlendChannel(s[1], d[1], s[4]),
                           BlendChannel(s[2], d[2], s[4]),
                           BlendChannel(s[3], d[3], s[4]), 255>>],
     texts |-> base.texts \o layer.texts,
     shapes |-> base.shapes \o layer.shapes]

\* a vector shape drawn on an image; n is the number of points of a polyline
Shape(kind, box, fill, n) == [kind |-> kind, box |-> box, fill |-> fill, n |-> n]

InBox(p, box) ==
    /\ box[1] <= p[1] /\ p[1] <= box[3]
    /\ box[2] <= p[2] /\ p[2] <= box[4]

\* draw.rectangle(box, fill=fill) on image im
Rectangle(im, box, fill) ==
    [im EXCEPT !.px = [p \in DOMAIN im.px |->
                          IF InBox(p, box) THEN fill ELSE im.px[p]],
               !.shapes = Append(@, Shape("rectangle", box, fill, 0))]

\* draw.text(xy, text, fill=fill, font=font) on image im (no glyph covers a
\* sample pixel)
Text(im, xy, text, fill, font) ==
    [im EXCEPT !.texts = Append(@, [xy |-> xy, text |-> text,
                                    fill |-> fill, font |-> font])]

----------------------------------------------------------------------------
(* draw_mathematical_grid *)

GridSpacing == 40

GridOpacity == 20

OnGrid(p) == p[1] % GridSpacing = 0 \/ p[2] % GridSpacing = 0

\* the n vertical and m horizontal lines are kept as two shapes
draw_mathematical_grid(im, width, height) ==
    LET grid_color == WithAlpha(colors.dark, GridOpacity)
        xs == PyRange(0, width, GridSpacing)
        ys == PyRange(0, height, GridSpacing)
    IN  [im EXCEPT
            !.px = [p \in DOMAIN im.px |->
                       IF OnGrid(p) THEN grid_color ELSE im.px[p]],
            !.shapes = @ \o <<Shape("vlines", <<xs[1], 0, xs[Len(xs)], height>>,
                                    grid_color, Len(xs)),
                              Shape("hlines", <<0, ys[1], width, ys[Len(ys)]>>,
                                    grid_color, Len(ys))>>]

----------------------------------------------------------------------------
(* draw_mathematical_pattern *)

PatternAlpha == 60

\* the radii with the stop value included
CircleRadiiInclusive == PyRange(50, 400 + 1, 50)

\* radii of the concentric circles: for r in range(50, 400, 50)
CircleRadii == PyRange(50, 400, 50)

\* pixel p lies on the width-2 outline of the circle of radius r about c
OnRing(p, c, r) ==
    LET d2 == (p[1] - c[1]) * (p[1] - c[1]) + (p[2] - c[2]) * (p[2] - c[2])
    IN  (r - 2) * (r - 2) <= d2 /\ d2 <= r * r

DrawCircles(im, width, height, line_color) ==
    LET c == <<width - 100, height - 100>>
        rs == CircleRadii
    IN  [im EXCEPT
            !.px = [p \in DOMAIN im.px |->
                       IF \E n \in DOMAIN rs : OnRing(p, c, rs[n])
                       THEN line_color ELSE im.px[p]],
            !.shapes = @ \o [n \in DOMAIN rs |->
                                Shape("ellipse",
                                      <<c[1] - rs[n], c[2] - rs[n],
                                        c[1] + rs[n], c[2] + rs[n]>>,
                                      line_color, 0)]]

\* three sine polylines, each sampled at x in range(0, width, 5); the strokes
\* stay in rows height-230 .. height-70 and miss every sample pixel
DrawWaves(im, width, height, line_color) ==
    LET n == Len(PyRange(0, width, 5))
    IN  [im EXCEPT
            !.shapes = @ \o [m \in 1 .. 3 |->
                                IF n > 1
                                THEN Shape("polyline",
                                           <<0, height - 230, width, height - 70>>,
                                           line_color, n)
                                ELSE Shape("none", <<0, 0, 0, 0>>, line_color, n)]]

\* hexagon: 7 vertices on the circle of radius 120 about (width-250, height-250)
DrawGeometric(im, width, height, line_color) ==
    LET c == <<width - 250, height - 250>>
        size == 120
    IN  [im EXCEPT
            !.shapes = Append(@, Shape("polyline",
                                       <<c[1] - size, c[2] - size,
                                         c[1] + size, c[2] + size>>,
                                       line_color, Len(PyRange(0, 7, 1))))]

\* math.pi as a ratio
Pi == <<3141592, 1000000>>

max_radius == 300

spiral_tightness == <<15, 100>>

\* a loop condition that never turns false
SpiralCondAlways(a) == a >= 0

\* while angle < math.pi * 8, the angle a counted in tenths of a radian
SpiralCond(a) == a * Pi[2] < 8 * 10 * Pi[1]

\* radius = spiral_tightness * angle * 15, in thousandths
SpiralRadius(a) == (spiral_tightness[1] * a * 15 * 1000) \div (spiral_tightness[2] * 10)

----------------------------------------------------------------------------
(* add_grain_texture *)

\* int(): truncation toward zero of a / b, b > 0
TruncDiv(a, b) == IF a >= 0 THEN a \div b ELSE -((-a) \div b)

\* noise = int((random.random() - 0.5) * 255 * intensity), random() = k / RandDen
Noise(k, inten) ==
    TruncDiv((2 * k - RandDen) * 255 * inten[1], 2 * RandDen * inten[2])

\* the clamp with the upper limit forgotten
ClampLowOnly(v) == Max(0, v)

\* max(0, min(255, v))
Clamp(v) == Max(0, Min(255, v))

\* the grain with a different noise value for each channel
GrainPixelValuePerChannel(c, k, inten) ==
    <<Clamp(c[1] + Noise(k, inten)),
      Clamp(c[2] + Noise((k + 1) % RandDen, inten)),
      Clamp(c[3] + Noise((k + 2) % RandDen, inten)), 255>>

\* the pixel written for input pixel c and one draw k: the same noise is
\* added to r, g and b
GrainPixelValue(c, k, inten) ==
    LET noise == Noise(k, inten)
    IN  <<Clamp(c[1] + noise), Clamp(c[2] + noise), Clamp(c[3] + noise), 255>>

\* draws of random.random() made for one pixel
GrainDraws(k) == <<k>>

RECURSIVE RowMajor(_)
\* the pixels of S in the order of "for y in range(h): for x in range(w)"
RowMajor(S) ==
    IF S = {} THEN <<>>
    ELSE LET first == CHOOSE p \in S :
                        \A q \in S : p[2] < q[2] \/ (p[2] = q[2] /\ p[1] <= q[1])
         IN  <<first>> \o RowMajor(S \ {first})

----------------------------------------------------------------------------
(* The script: lines 239-246 *)

Line(kind, path) == [kind |-> kind, path |-> path]

NoLocals ==
    /\ heap' = <<>>
    /\ img' = 0
    /\ overlay' = 0
    /\ draw' = 0
    /\ fonts' = "unset"
    /\ angle' = 0
    /\ points' = <<>>
    /\ gpos' = 0
    /\ intensity' = <<0, 1>>
    /\ grainLog' = <<>>
    /\ trace' = <<>>

locals == <<heap, img, overlay, draw, fonts, angle, points, gpos, intensity,
            grainLog, trace>>

Init ==
    /\ pc = "makedirs"
    /\ i = 0
    /\ dirs \in BOOLEAN
    /\ stdout = <<>>
    /\ disk = <<>>
    /\ exc = "none"
    /\ calls = <<>>
    /\ heap = <<>>
    /\ img = 0
    /\ overlay = 0
    /\ draw = 0
    /\ fonts = "unset"
    /\ angle = 0
    /\ points = <<>>
    /\ gpos = 0
    /\ intensity = <<0, 1>>
    /\ grainLog = <<>>
    /\ trace = <<>>

\* os.makedirs('./images', exist_ok=True) succeeds
Makedirs ==
    /\ pc = "makedirs"
    /\ dirs' = TRUE
    /\ pc' = "banner"
    /\ UNCHANGED <<i, stdout, disk, exc, calls>>
    /\ UNCHANGED locals

\* os.makedirs raises (the directory cannot be created): nothing catches it
MakedirsFail ==
    /\ pc = "makedirs"
    /\ ~dirs
    /\ exc' = "makedirs"
    /\ pc' = "aborted"
    /\ UNCHANGED <<i, dirs, stdout, disk, calls>>
    /\ UNCHANGED locals

\* print('Generating OG images...\n')
PrintBanner ==
    /\ pc = "banner"
    /\ stdout' = Append(stdout, Line("banner", ""))
    /\ pc' = "loop"
    /\ UNCHANGED <<i, dirs, disk, exc, calls>>
    /\ UNCHANGED locals

\* for config in pages: generate_og_image(config)
ForNext ==
    /\ pc = "loop"
    /\ i < Len(pages)
    /\ i' = i + 1
    /\ calls' = Append(calls, i + 1)
    /\ pc' = "new"
    /\ UNCHANGED <<dirs, stdout, disk, exc>>
    /\ UNCHANGED locals

\* the loop left after the first page
ForEndEarly ==
    /\ pc = "loop"
    /\ i >= 1
    /\ pc' = "summary"
    /\ UNCHANGED <<dirs, stdout, disk, exc, calls, i>>
    /\ UNCHANGED <<heap, img, overlay, draw, fonts, angle, points, gpos, intensity,
                   grainLog, trace>>

\* the list is exhausted
ForEnd ==
    /\ pc = "loop"
    /\ i = Len(pages)
    /\ pc' = "summary"
    /\ UNCHANGED driverVars
    /\ UNCHANGED locals

\* print('\n... All OG images generated successfully!')
PrintSummary ==
    /\ pc = "summary"
    /\ stdout' = Append(stdout, Line("summary", ""))
    /\ pc' = "done"
    /\ UNCHANGED <<i, dirs, disk, exc, calls>>
    /\ UNCHANGED locals

----------------------------------------------------------------------------
(* generate_og_image(config), config = pages[i] *)

config == pages[i]

\* a step of generate_og_image from stage "from" to stage "to"
Stage(from, to) ==
    /\ pc = from
    /\ pc' = to
    /\ trace' = Append(trace, from)
    /\ UNCHANGED driverVars

\* img = Image.new('RGB', (WIDTH, HEIGHT), config['background_color'])
NewBase ==
    /\ Stage("new", "overlay")
    /\ heap' = Append(heap, NewImage("RGB", WIDTH, HEIGHT,
                                     Opaque(config.background_color), Samples))
    /\ img' = Len(heap) + 1
    /\ UNCHANGED <<overlay, draw, fonts, angle, points, gpos, intensity, grainLog>>

\* overlay = Image.new('RGBA', ...); draw_overlay = ImageDraw.Draw(overlay)
NewOverlay ==
    /\ Stage("overlay", "grid")
    /\ heap' = Append(heap, NewImage("RGBA", WIDTH, HEIGHT, Transparent, Samples))
    /\ overlay' = Len(heap) + 1
    /\ UNCHANGED <<img, draw, fonts, angle, points, gpos, intensity, grainLog>>

\* draw_mathematical_grid(draw_overlay, WIDTH, HEIGHT)
DrawGrid ==
    /\ Stage("grid", "pattern")
    /\ heap' = [heap EXCEPT ![overlay] = draw_mathematical_grid(@, WIDTH, HEIGHT)]
    /\ UNCHANGED <<img, overlay, draw, fonts, angle, points, gpos, intensity, grainLog>>

line_color == WithAlpha(config.accent_color, PatternAlpha)

\* draw_mathematical_pattern for the patterns drawn without a while loop
DrawPattern ==
    /\ Stage("pattern", "composite")
    /\ config.pattern # "spiral"
    /\ heap' = [heap EXCEPT ![overlay] =
                   IF config.pattern = "circles"
                   THEN DrawCircles(@, WIDTH, HEIGHT, line_color)
                   ELSE IF config.pattern = "waves"
                   THEN DrawWaves(@, WIDTH, HEIGHT, line_color)
                   ELSE IF config.pattern = "geometric"
                   THEN DrawGeometric(@, WIDTH, HEIGHT, line_color)
                   ELSE @]
    /\ UNCHANGED <<img, overlay, draw, fonts, angle, points, gpos, intensity, grainLog>>

\* pattern == 'spiral': points = []; angle = 0
SpiralBegin ==
    /\ Stage("pattern", "spiral")
    /\ config.pattern = "spiral"
    /\ points' = <<>>
    /\ angle' = 0
    /\ UNCHANGED <<heap, img, overlay, draw, fonts, gpos, intensity, grainLog>>

\* one iteration of the while loop: break when the radius passes max_radius,
\* else append the point and advance the angle by 0.1
SpiralStep ==
    /\ pc = "spiral"
    /\ SpiralCond(angle)
    /\ IF SpiralRadius(angle) > max_radius * 1000
       THEN /\ pc' = "spiral_draw"
            /\ UNCHANGED <<points, angle>>
       ELSE /\ points' = Append(points, [angle |-> angle,
                                         radius |-> SpiralRadius(angle)])
            /\ angle' = angle + 1
            /\ pc' = "spiral"
    /\ UNCHANGED driverVars
    /\ UNCHANGED <<heap, img, overlay, draw, fonts, gpos, intensity, grainLog, trace>>

\* the while condition is false
SpiralExit ==
    /\ pc = "spiral"
    /\ ~SpiralCond(angle)
    /\ pc' = "spiral_draw"
    /\ UNCHANGED driverVars
    /\ UNCHANGED <<heap, img, overlay, draw, fonts, angle, points, gpos, intensity,
                   grainLog, trace>>

\* if len(points) > 1: draw.line(points, fill=line_color, width=2)
SpiralDraw ==
    /\ pc = "spiral_draw"
    /\ pc' = "composite"
    /\ trace' = Append(trace, "pattern_loop")
    /\ heap' = [heap EXCEPT ![overlay] =
                   IF Len(points) > 1
                   THEN [@ EXCEPT !.shapes =
                            Append(@, Shape("polyline",
                                            <<WIDTH - 150 - max_radius,
                                              HEIGHT - 150 - max_radius,
                                              WIDTH - 150 + max_radius,
                                              HEIGHT - 150 + max_radius>>,
                                            line_color, Len(points)))]
                   ELSE @]
    /\ UNCHANGED driverVars
    /\ UNCHANGED <<img, overlay, draw, fonts, angle, points, gpos, intensity, grainLog>>

\* img = Image.alpha_composite(img.convert('RGBA'), overlay).convert('RGB')
CompositeOverlay ==
    /\ Stage("composite", "bar")
    /\ heap' = Append(heap, AlphaComposite(heap[img], heap[overlay]))
    /\ img' = Len(heap) + 1
    /\ UNCHANGED <<overlay, draw, fonts, angle, points, gpos, intensity, grainLog>>

\* the bar one row short
AccentBarShort == <<0, 0, WIDTH, 7>>

\* the box of the top accent bar
AccentBar == <<0, 0, WIDTH, 8>>

\* draw = ImageDraw.Draw(img); draw.rectangle([0, 0, WIDTH, 8], fill=accent)
DrawBar ==
    /\ Stage("bar", "fonts")
    /\ draw' = img
    /\ heap' = [heap EXCEPT ![img] =
                   Rectangle(@, AccentBar, Opaque(config.accent_color))]
    /\ UNCHANGED <<img, overlay, fonts, angle, points, gpos, intensity, grainLog>>

\* the fonts of the try block: truetype(path, size) for title, subtitle, domain
TruetypeFonts ==
    [title |-> <<"DejaVuSans-Bold.ttf", config.title_size>>,
     subtitle |-> <<"DejaVuSans.ttf", 36>>,
     domain |-> <<"DejaVuSans.ttf", 32>>]

\* the fonts of the except block: ImageFont.load_default() three times
DefaultFonts ==
    [title |-> <<"default", 0>>,
     subtitle |-> <<"default", 0>>,
     domain |-> <<"default", 0>>]

\* the try block succeeds
LoadFonts ==
    /\ Stage("fonts", "title")
    /\ fonts' = TruetypeFonts
    /\ UNCHANGED <<heap, img, overlay, draw, angle, points, gpos, intensity, grainLog>>

\* ImageFont.truetype raises and nothing catches it
LoadFontsRaise ==
    /\ pc = "fonts"
    /\ pc' = "aborted"
    /\ exc' = "fonts"
    /\ UNCHANGED <<i, dirs, stdout, disk, calls>>
    /\ UNCHANGED <<heap, img, overlay, draw, fonts, angle, points, gpos, intensity,
                   grainLog, trace>>

\* ImageFont.truetype raises; the bare except falls back to the default font
LoadFontsFallback ==
    /\ pc = "fonts"
    /\ pc' = "title"
    /\ trace' = Append(trace, "fonts_except")
    /\ fonts' = DefaultFonts
    /\ UNCHANGED driverVars
    /\ UNCHANGED <<heap, img, overlay, draw, angle, points, gpos, intensity, grainLog>>

title_y == 120

\* draw_chromatic_text(draw, text, x, y, font, accent_color) on image im
draw_chromatic_text(im, text, x, y, font, accent_color) ==
    LET offset == 3
        a == Text(im, <<x - offset, y>>, text, WithAlpha(colors.cobalt, 80), font)
        b == Text(a, <<x + offset, y>>, text, WithAlpha(accent_color, 80), font)
    IN  Text(b, <<x, y>>, text, Opaque(colors.dark), font)

\* lines 154-160: the title on its own layer, composited onto img; the
\* composite is a new object and img is rebound to it
DrawTitle ==
    /\ Stage("title", "subtitle")
    /\ LET text_layer == draw_chromatic_text(
                             NewImage("RGBA", WIDTH, HEIGHT, Transparent, Samples),
                             config.title, 80, title_y, fonts.title,
                             config.accent_color)
       IN  /\ heap' = heap \o <<text_layer, AlphaComposite(heap[img], text_layer)>>
           /\ img' = Len(heap) + 2
    /\ UNCHANGED <<overlay, draw, fonts, angle, points, gpos, intensity, grainLog>>

subtitle_y == title_y + config.title_size + 30

\* lines 163-170: if config.get('subtitle'): the subtitle layer, composited
DrawSubtitle ==
    /\ Stage("subtitle", "square")
    /\ IF config.subtitle # ""
       THEN LET subtitle_layer ==
                    Text(NewImage("RGBA", WIDTH, HEIGHT, Transparent, Samples),
                         <<80, subtitle_y>>, config.subtitle,
                         WithAlpha(colors.dark, 150), fonts.subtitle)
            IN  /\ heap' = heap \o <<subtitle_layer,
                                     AlphaComposite(heap[img], subtitle_layer)>>
                /\ img' = Len(heap) + 2
       ELSE UNCHANGED <<heap, img>>
    /\ UNCHANGED <<overlay, draw, fonts, angle, points, gpos, intensity, grainLog>>

domain_y == HEIGHT - 100

\* the box of the small accent square
AccentSquare == <<80, domain_y - 45, 120, domain_y - 5>>

\* lines 173-174: draw.rectangle(...) through draw, the ImageDraw created on
\* the image img named at line 136
DrawSquare ==
    /\ Stage("square", "domain")
    /\ heap' = [heap EXCEPT ![draw] =
                   Rectangle(@, AccentSquare, Opaque(config.accent_color))]
    /\ UNCHANGED <<img, overlay, draw, fonts, angle, points, gpos, intensity, grainLog>>

\* lines 177-181: the domain label on its own layer, composited; the next
\* statement is at stage next
DrawDomainThen(next) ==
    /\ Stage("domain", next)
    /\ LET domain_layer ==
               Text(NewImage("RGBA", WIDTH, HEIGHT, Transparent, Samples),
                    <<80, domain_y>>, "bensiverly.com",
                    WithAlpha(colors.dark, 130), fonts.domain)
       IN  /\ heap' = heap \o <<domain_layer, AlphaComposite(heap[img], domain_layer)>>
           /\ img' = Len(heap) + 2
    /\ UNCHANGED <<overlay, draw, fonts, angle, points, gpos, intensity, grainLog>>

\* the domain label followed by the save, the grain left out
DrawDomainNoGrain == DrawDomainThen("save")

\* lines 177-184: the domain label, then the call of add_grain_texture
DrawDomain == DrawDomainThen("grain_call")

\* img = add_grain_texture(img, intensity=0.12): the call
GrainCall ==
    /\ pc = "grain_call"
    /\ pc' = "grain"
    /\ intensity' = <<12, 100>>
    /\ gpos' = 0
    /\ grainLog' = <<>>
    /\ UNCHANGED driverVars
    /\ UNCHANGED <<heap, img, overlay, draw, fonts, angle, points, trace>>

\* the body of the two for loops for the next pixel, in place on img
GrainPixel ==
    /\ pc = "grain"
    /\ gpos < Cardinality(DOMAIN heap[img].px)
    /\ LET p == RowMajor(DOMAIN heap[img].px)[gpos + 1]
           c == heap[img].px[p]
       IN  \E k \in 0 .. RandDen - 1 :
              /\ heap' = [heap EXCEPT ![img].px[p] = GrainPixelValue(c, k, intensity)]
              /\ grainLog' = Append(grainLog,
                                    [xy |-> p, in |-> c, draws |-> GrainDraws(k),
                                     out |-> GrainPixelValue(c, k, intensity)])
    /\ gpos' = gpos + 1
    /\ UNCHANGED <<pc, intensity>>
    /\ UNCHANGED driverVars
    /\ UNCHANGED <<img, overlay, draw, fonts, angle, points, trace>>

\* return img: the same object
GrainReturn ==
    /\ pc = "grain"
    /\ gpos = Cardinality(DOMAIN heap[img].px)
    /\ pc' = "save"
    /\ trace' = Append(trace, "grain")
    /\ UNCHANGED driverVars
    /\ UNCHANGED <<heap, img, overlay, draw, fonts, angle, points, gpos, intensity,
                   grainLog>>

\* img.save(config['output_path'], 'PNG', quality=95) succeeds
Save ==
    /\ pc = "save"
    /\ dirs
    /\ pc' = "print"
    /\ trace' = Append(trace, "save")
    /\ disk' = Append(disk, [path |-> config.output_path,
                             w |-> heap[img].w, h |-> heap[img].h])
    /\ UNCHANGED <<i, dirs, stdout, exc, calls>>
    /\ UNCHANGED <<heap, img, overlay, draw, fonts, angle, points, gpos, intensity,
                   grainLog>>

\* img.save raises, the loop swallows it and goes on to the next page
SaveFailContinue ==
    /\ pc = "save"
    /\ pc' = "loop"
    /\ exc' = "save"
    /\ NoLocals
    /\ UNCHANGED <<i, dirs, stdout, disk, calls>>

\* img.save raises (the path cannot be written); nothing catches it
SaveFail ==
    /\ pc = "save"
    /\ pc' = "aborted"
    /\ exc' = "save"
    /\ UNCHANGED <<i, dirs, stdout, disk, calls>>
    /\ UNCHANGED locals

\* print(f"... Generated: {config['output_path']}") and return to the loop
PrintGenerated ==
    /\ pc = "print"
    /\ pc' = "loop"
    /\ stdout' = Append(stdout, Line("generated", config.output_path))
    /\ NoLocals
    /\ UNCHANGED <<i, dirs, disk, exc, calls>>

----------------------------------------------------------------------------
(* Specifications *)

Next ==
    \/ Makedirs
    \/ MakedirsFail
    \/ PrintBanner
    \/ ForNext
    \/ ForEnd
    \/ PrintSummary
    \/ NewBase
    \/ NewOverlay
    \/ DrawGrid
    \/ DrawPattern
    \/ SpiralBegin
    \/ SpiralStep
    \/ SpiralExit
    \/ SpiralDraw
    \/ CompositeOverlay
    \/ DrawBar
    \/ LoadFonts
    \/ LoadFontsFallback
    \/ DrawTitle
    \/ DrawSubtitle
    \/ DrawSquare
    \/ DrawDomain
    \/ GrainCall
    \/ GrainPixel
    \/ GrainReturn
    \/ Save
    \/ SaveFail
    \/ PrintGenerated

\* the whole script
Spec == Init /\ [][Next]_vars

\* the script under the scheduling of a single-threaded interpreter: a step
\* that can be taken is taken
LiveSpec == Init /\ [][Next]_vars /\ WF_vars(Next)

----------------------------------------------------------------------------
(* add_grain_texture on its own: any small raster, any intensity in (0, 1] *)

GrainColors ==
    {Opaque(<<0, 0, 0>>), Opaque(colors.white), Opaque(colors.warm),
     Opaque(colors.yellow), Opaque(colors.cobalt), Opaque(<<128, 1, 254>>)}

\* the (width, height) of the rasters add_grain_texture is applied to
GrainSizes == {<<1, 1>>, <<2, 1>>, <<1, 2>>}

Raster(w, h) == {<<x, y>> : x \in 0 .. w - 1, y \in 0 .. h - 1}

GrainInit ==
    /\ pc = "grain"
    /\ i = 0
    /\ dirs = TRUE
    /\ stdout = <<>>
    /\ disk = <<>>
    /\ exc = "none"
    /\ calls = <<>>
    /\ \E size \in GrainSizes :
          \E px \in [Raster(size[1], size[2]) -> GrainColors] :
             heap = <<[mode |-> "RGB", w |-> size[1], h |-> size[2], px |-> px,
                       texts |-> <<>>, shapes |-> <<>>]>>
    /\ img = 1
    /\ overlay = 0
    /\ draw = 0
    /\ fonts = "unset"
    /\ angle = 0
    /\ points = <<>>
    /\ gpos = 0
    /\ intensity \in {<<n, IntDen>> : n \in 1 .. IntDen}
    /\ grainLog = <<>>
    /\ trace = <<>>

GrainNext ==
    \/ GrainPixel
    \/ GrainReturn

GrainSpec == GrainInit /\ [][GrainNext]_vars

----------------------------------------------------------------------------
(* Properties of add_grain_texture *)

Channels == 1 .. 3

LogEntries == {grainLog[n] : n \in DOMAIN grainLog}

\* C2: every R, G and B value add_grain_texture writes lies in 0..255, for
\* every input pixel, every intensity in (0, 1] and every draw in [0, 1)
C2_GrainChannelsInRange ==
    /\ \A e \in LogEntries : \A c \in Channels : e.out[c] \in 0 .. 255
    /\ pc = "grain" =>
          \A n \in 1 .. gpos : \A c \in Channels :
             heap[img].px[RowMajor(DOMAIN heap[img].px)[n]][c] \in 0 .. 255

\* a pixel was written whose input plus noise left 0..255 and was clamped
C2_Witness ==
    \E e \in LogEntries : \E c \in Channels :
       /\ e.in[c] + Noise(e.draws[1], intensity) > 255
       /\ e.out[c] = 255

\* n is the quotient a / b (b > 0) truncated toward zero
IsTruncation(n, a, b) ==
    IF a >= 0 THEN n >= 0 /\ n * b <= a /\ a < (n + 1) * b
    ELSE n <= 0 /\ n * b >= a /\ a > (n - 1) * b

\* round(a / b) for b > 0, halves to the even neighbour
RoundDiv(a, b) ==
    LET fl == IF a >= 0 THEN a \div b ELSE -((-a + b - 1) \div b)
        twice == 2 * (a - fl * b)
    IN  IF twice < b THEN fl
        ELSE IF twice > b THEN fl + 1
        ELSE IF fl % 2 = 0 THEN fl ELSE fl + 1

\* the exact value of (rand - 0.5) * 255 * intensity as numerator, denominator
NoiseNum(k) == (2 * k - RandDen) * 255 * intensity[1]

NoiseDen == 2 * RandDen * intensity[2]

\* C3 as stated: each channel of each pixel has its own draw, and is
\* clamp(channel + round((rand - 0.5) * 255 * intensity), 0, 255)
C3_PerChannelDraw ==
    \A e \in LogEntries :
       /\ Len(e.draws) = 3
       /\ \A c \in Channels :
             e.out[c] = Max(0, Min(255, e.in[c] + RoundDiv(NoiseNum(e.draws[c]), NoiseDen)))

\* C3 amended: one draw per pixel; the same offset, (rand - 0.5) * 255 *
\* intensity truncated toward zero, is added to R, G and B, each then clamped
\* to 0..255
C3_OneDrawPerPixel ==
    \A e \in LogEntries :
       /\ Len(e.draws) = 1
       /\ \E n \in -128 .. 128 :
             /\ IsTruncation(n, NoiseNum(e.draws[1]), NoiseDen)
             /\ \A c \in Channels : e.out[c] = Max(0, Min(255, e.in[c] + n))

\* a pixel whose three channels all moved, unclamped, by the same non-zero
\* offset that differs from the rounded one
C3_Witness ==
    \E e \in LogEntries :
       /\ \A c \in Channels : e.out[c] \in 1 .. 254
       /\ e.out[1] - e.in[1] # 0
       /\ e.out[1] - e.in[1] = e.out[2] - e.in[2]
       /\ e.out[2] - e.in[2] = e.out[3] - e.in[3]
       /\ e.out[1] - e.in[1] # RoundDiv(NoiseNum(e.draws[1]), NoiseDen)

----------------------------------------------------------------------------
(* Properties of generate_og_image and of the driver *)

Stages == SeqRange(trace)

TextStages == {"title", "subtitle", "domain"}

\* background synthesis 1, text compositing 2, grain 3, save 4
Rank(stage) ==
    IF stage \in TextStages \/ stage = "square" THEN 2
    ELSE IF stage = "grain" THEN 3
    ELSE IF stage = "save" THEN 4
    ELSE 1

\* C1 as stated: add_grain_texture has been applied before any text layer is
\* composited, and the save is the last stage
C1_GrainBeforeText ==
    /\ \A n \in DOMAIN trace :
          trace[n] \in TextStages => \E m \in 1 .. n - 1 : trace[m] = "grain"
    /\ \A n \in DOMAIN trace : trace[n] = "save" => n = Len(trace)

\* C1 amended: the stages run in the order background synthesis, text
\* compositing (title, subtitle, domain), grain, save: add_grain_texture is
\* applied after every text layer is composited and the save is the last stage
C1_TextBeforeGrain ==
    /\ \A m, n \in DOMAIN trace : m < n => Rank(trace[m]) <= Rank(trace[n])
    /\ \A n \in DOMAIN trace :
          trace[n] = "grain" => \A t \in TextStages : \E m \in 1 .. n - 1 : trace[m] = t
    /\ \A n \in DOMAIN trace : trace[n] = "save" => n = Len(trace)
    /\ pc = "print" =>
          /\ trace[Len(trace)] = "save"
          /\ trace[Len(trace) - 1] = "grain"
          /\ Len(grainLog) = Cardinality(Samples)
          /\ {"new", "composite", "bar"} \subseteq Stages

\* a page has been saved after being grained
C1_Witness == pc = "print" /\ "grain" \in Stages /\ i = 2

Kinds(kind) == {n \in DOMAIN stdout : stdout[n].kind = kind}

FileOf(n) == [path |-> pages[n].output_path, w |-> WIDTH, h |-> HEIGHT]

\* C4: once generate_og_image (or makedirs) has raised, the run has stopped:
\* no later page is started, the failing page is not called again, no
\* summary line is printed, and the files of the pages before it stay
C4_FailFast ==
    exc # "none" =>
       /\ pc = "aborted"
       /\ ~ENABLED Next
       /\ calls = [n \in 1 .. i |-> n]
       /\ Kinds("summary") = {}
       /\ exc = "save" => i >= 1 /\ disk = [n \in 1 .. i - 1 |-> FileOf(n)]
       /\ exc = "makedirs" => i = 0 /\ disk = <<>>

\* the save of the third page failed after two pages were written
C4_Witness == exc = "save" /\ i = 3 /\ Len(disk) = 2 /\ pc = "aborted"

\* the state part of C5
C5_Safety ==
    exc = "none" =>
       /\ disk # <<>> => dirs
       /\ calls = [n \in 1 .. i |-> n]
       /\ Len(disk) = (IF pc \in {"print", "loop", "summary", "done"} THEN i
                       ELSE IF i = 0 THEN 0 ELSE i - 1)
       /\ disk = [n \in 1 .. Len(disk) |-> FileOf(n)]
       /\ LET done == IF pc = "print" THEN Len(disk) - 1 ELSE Len(disk)
              gen == Kinds("generated")
          IN  /\ Cardinality(gen) = done
              /\ \A n \in gen : stdout[n] = Line("generated", pages[n - 1].output_path)
       /\ Cardinality(Kinds("summary")) <= 1
       /\ Kinds("summary") # {} =>
             /\ pc = "done"
             /\ Len(disk) = Len(pages)
             /\ stdout[Len(stdout)].kind = "summary"
       /\ pc = "done" => Kinds("summary") # {} /\ ~ENABLED Next

\* C5: on a run with no failure the directory exists before any save, the
\* pages are processed once each in list order, one confirmation line follows
\* each save, one summary line follows the last save, and the run terminates
C5_NoFailureRun == []C5_Safety /\ <>(exc # "none" \/ pc = "done")

\* the run has ended with five files and the summary
C5_Witness ==
    pc = "done" /\ exc = "none" /\ Len(disk) = Len(pages) /\ Len(stdout) = Len(pages) + 2

TextAt(im, xy, text) ==
    \E n \in DOMAIN im.texts : im.texts[n].xy = xy /\ im.texts[n].text = text

\* C6: a failing truetype load does not raise; with the default font the
\* title, subtitle and domain label are drawn at (80,120), (80,120+title_size+30)
\* and (80,HEIGHT-100) and the image is 1200x630
C6_FontFallback ==
    /\ exc # "fonts"
    /\ ("fonts_except" \in Stages /\ pc \notin {"fonts", "title"}) =>
          /\ fonts = DefaultFonts
          /\ TextAt(heap[img], <<80, 120>>, config.title)
          /\ heap[img].w = 1200 /\ heap[img].h = 630
    /\ ("fonts_except" \in Stages /\ pc = "print") =>
          /\ TextAt(heap[img], <<80, 120 + config.title_size + 30>>, config.subtitle)
          /\ TextAt(heap[img], <<80, HEIGHT - 100>>, "bensiverly.com")
          /\ \A n \in DOMAIN heap[img].texts : heap[img].texts[n].font[1] = "default"
          /\ disk[Len(disk)] = [path |-> config.output_path, w |-> 1200, h |-> 630]

\* a page saved on the fallback path
C6_Witness == "fonts_except" \in Stages /\ pc = "print" /\ Len(heap[img].texts) = 5

BarSamples == {p \in Samples : p[2] <= 8}

Near(c, d, delta) == \A ch \in Channels : c[ch] - d[ch] \in -delta .. delta

\* C7 as stated: the saved home image is 1200x630 at ./images/og-home.png and
\* its pixels in rows 0-8 have the accent color
C7_BarIsAccent ==
    (pc = "print" /\ i = 1) =>
       /\ disk[Len(disk)] = [path |-> "./images/og-home.png", w |-> 1200, h |-> 630]
       /\ \A p \in BarSamples : heap[img].px[p] = Opaque(colors.yellow)

\* C7 amended: the saved home image is 1200x630 at ./images/og-home.png and
\* each channel of its pixels in rows 0-8 is within 15 (the grain at
\* intensity 0.12) of the accent color, which is never the background color
C7_BarNearAccent ==
    (pc = "print" /\ i = 1) =>
       /\ disk[Len(disk)] = [path |-> "./images/og-home.png", w |-> 1200, h |-> 630]
       /\ heap[img].w = 1200 /\ heap[img].h = 630
       /\ \A p \in BarSamples :
             /\ Near(heap[img].px[p], colors.yellow, 15)
             /\ ~Near(heap[img].px[p], colors.warm, 15)
             /\ heap[img].px[p] # Opaque(colors.warm)

\* the home image saved with a bar pixel the grain has moved off the accent
C7_Witness ==
    /\ pc = "print" /\ i = 1
    /\ \E p \in BarSamples : heap[img].px[p] # Opaque(colors.yellow)

SpiralPolylines(im) ==
    {n \in DOMAIN im.shapes : im.shapes[n].kind = "polyline"}

\* the state part of C8
C8_Safety ==
    /\ Len(points) <= 300
    /\ \A n \in DOMAIN points : points[n].radius <= 300 * 1000
    /\ pc = "spiral_draw" => Len(points) >= 2
    /\ ("pattern_loop" \in Stages) =>
          \E n \in SpiralPolylines(heap[overlay]) :
             heap[overlay].shapes[n].n = Len(points) /\ Len(points) >= 2

\* C8: the spiral loop terminates, never has more than 300 points, no point
\* has a radius above 300, and the polyline has at least 2 points
C8_SpiralBounded == []C8_Safety /\ (pc = "spiral" ~> pc = "spiral_draw")

\* the loop has ended by its condition with all its points
C8_Witness ==
    pc = "spiral_draw" /\ Len(points) > 250 /\ ~SpiralCond(angle)

Rings(im) == {im.shapes[n] : n \in {m \in DOMAIN im.shapes : im.shapes[m].kind = "ellipse"}}

RingRadius(s) == (s.box[3] - s.box[1]) \div 2

RingCentre(s) == <<(s.box[1] + s.box[3]) \div 2, (s.box[2] + s.box[4]) \div 2>>

CirclesDrawn == "pattern" \in Stages /\ config.pattern = "circles" /\ pc = "composite"

\* C9 as stated: one ring for each radius 50, 100, ..., 400
C9_RingsTo400 ==
    CirclesDrawn =>
       {RingRadius(s) : s \in Rings(heap[overlay])} = {50 * n : n \in 1 .. 8}

\* C9 amended: one ring for each radius 50, 100, ..., 350 (400 is the
\* exclusive end of the range), all with the centre (width-100, height-100)
C9_RingsTo350 ==
    CirclesDrawn =>
       /\ {RingRadius(s) : s \in Rings(heap[overlay])} = {50 * n : n \in 1 .. 7}
       /\ Cardinality(Rings(heap[overlay])) = 7
       /\ \A s \in Rings(heap[overlay]) : RingCentre(s) = <<WIDTH - 100, HEIGHT - 100>>

\* the circles pattern has been drawn on the overlay
C9_Witness == CirclesDrawn /\ Rings(heap[overlay]) # {}

\* C10: every draw generate_og_image performs is in the saved image: the
\* accent square is among the shapes of the image that is saved and colours
\* its pixels
C10_SquareIsSaved ==
    pc = "print" =>
       /\ \E n \in DOMAIN heap[img].shapes :
             /\ heap[img].shapes[n].kind = "rectangle"
             /\ heap[img].shapes[n].box = <<80, HEIGHT - 145, 120, HEIGHT - 105>>
       /\ Near(heap[img].px[<<100, 505>>], config.accent_color, 15)

====
